---- MODULE Spec2Model ----
(***************************************************************************)
(* Model of verify_frontend.py: a script that launches a headless browser, *)
(* navigates to /onboarding on a local server, compares the resulting URL  *)
(* with the landing URL, prints a verdict and takes a screenshot.          *)
(*                                                                         *)
(* A URL is a sequence of one-character strings, so that rstrip('/') is    *)
(* modelled by what it does to the characters.  The calls into the browser *)
(* library that talk to the browser (launch, new_page, goto,               *)
(* wait_for_load_state, screenshot) may each raise; the property read      *)
(* page.url, print(), browser.close() and the exit of the `with` block are *)
(* taken to complete normally.                                             *)
(***************************************************************************)
EXTENDS Naturals, Sequences, FiniteSets

VARIABLES
    pc,         \* position of the single thread of control
    browser,    \* "none" | "open" | "closed"
    page,       \* TRUE once browser.new_page() has returned
    pageUrl,    \* the value of page.url
    verdict,    \* result of the comparison of line 22: "none" | "equal" | "different"
    out,        \* lines printed so far
    calls,      \* steps executed so far, in order, each with its outcome
    files,      \* screenshot files written
    exc,        \* the exception in flight ("none" when there is none)
    closeCount, \* number of times browser.close() has been called
    exitStatus  \* exit status of the process, meaningful when pc = "done"

vars == <<pc, browser, page, pageUrl, verdict, out, calls, files, exc, closeCount, exitStatus>>

\* Largest number of characters appended to the base URL in the URLs the
\* server may leave the page at.
MaxSuffixLen == 2

------------------------------------------------------------------------------
\* Strings of the program, as character sequences

\* "http://localhost:5173" (line 22)
Base == <<"h","t","t","p",":","/","/","l","o","c","a","l","h","o","s","t",":","5","1","7","3">>

\* "http://localhost:5173/onboarding" (line 6)
OnboardingUrl == Base \o <<"/","o","n","b","o","a","r","d","i","n","g">>

\* the URL of a page that has not navigated yet
AboutBlank == <<"a","b","o","u","t",":","b","l","a","n","k">>

PathChars == {"/", "a"}

SeqsUpTo(S, n) == UNION {[1..k -> S] : k \in 0..n}

\* The URLs page.url may hold after a navigation.
Urls ==
    {Base \o s : s \in SeqsUpTo(PathChars, MaxSuffixLen)}
        \cup {OnboardingUrl, OnboardingUrl \o <<"/">>, AboutBlank}

\* Messages of the exceptions the browser library raises
LaunchErrors == {"Executable doesn't exist"}
NewPageErrors == {"Target page, context or browser has been closed"}
GotoErrors == {"net::ERR_CONNECTION_REFUSED", "Timeout 30000ms exceeded"}
WaitErrors == {"Timeout 30000ms exceeded"}
ScreenshotErrors == {"Permission denied"}

------------------------------------------------------------------------------
\* Pure helpers

RECURSIVE RStrip(_, _)
\* str.removesuffix(ch): removes one trailing occurrence of ch, if any.
RStripOnce(s, ch) ==
    IF s # <<>> /\ s[Len(s)] = ch THEN SubSeq(s, 1, Len(s) - 1) ELSE s

\* str.rstrip(ch): removes every trailing occurrence of ch.
RStrip(s, ch) ==
    IF s = <<>> THEN s
    ELSE IF s[Len(s)] = ch THEN RStrip(SubSeq(s, 1, Len(s) - 1), ch)
    ELSE s

\* Variant: the call with full_page=True.
ScreenshotOptionsFullPage == [path |-> "verification_redirect.png", fullPage |-> TRUE]

\* The keyword arguments of page.screenshot(path="verification_redirect.png");
\* full_page is not passed, and the library's default for it is false.
ScreenshotOptions == [path |-> "verification_redirect.png", fullPage |-> FALSE]

Line(kind, text) == [kind |-> kind, text |-> text]

Call(op, ok) == [op |-> op, ok |-> ok]

------------------------------------------------------------------------------
Init ==
    /\ pc = "start"
    /\ browser = "none"
    /\ page = FALSE
    /\ pageUrl = <<>>
    /\ verdict = "none"
    /\ out = <<>>
    /\ calls = <<>>
    /\ files = {}
    /\ exc = "none"
    /\ closeCount = 0
    /\ exitStatus = 0

\* line 30: with sync_playwright() as p
EnterPlaywright ==
    /\ pc = "start"
    /\ pc' = "launch"
    /\ UNCHANGED <<browser, page, pageUrl, verdict, out, calls, files, exc, closeCount, exitStatus>>

\* line 31: browser = p.chromium.launch(), outside the try statement
Launch ==
    /\ pc = "launch"
    /\ \/ /\ browser' = "open"
          /\ calls' = Append(calls, Call("launch", TRUE))
          /\ pc' = "new_page"
          /\ exc' = exc
       \/ \E e \in LaunchErrors :
             /\ exc' = e
             /\ calls' = Append(calls, Call("launch", FALSE))
             /\ pc' = "exit_with"
             /\ browser' = browser
    /\ UNCHANGED <<page, pageUrl, verdict, out, files, closeCount, exitStatus>>

\* line 32: page = browser.new_page(), outside the try statement
NewPage ==
    /\ pc = "new_page"
    /\ \/ /\ page' = TRUE
          /\ pageUrl' = AboutBlank
          /\ calls' = Append(calls, Call("new_page", TRUE))
          /\ pc' = "goto"
          /\ exc' = exc
       \/ \E e \in NewPageErrors :
             /\ exc' = e
             /\ calls' = Append(calls, Call("new_page", FALSE))
             /\ pc' = "exit_with"
             /\ UNCHANGED <<page, pageUrl>>
    /\ UNCHANGED <<browser, verdict, out, files, closeCount, exitStatus>>

\* Variant: goto as if called outside the try statement.
GotoUnprotected ==
    /\ pc = "goto"
    /\ out' = Append(out, Line("navigating", <<>>))
    /\ \/ \E u \in Urls :
             /\ pageUrl' = u
             /\ calls' = Append(calls, Call("goto", TRUE))
             /\ pc' = "wait"
             /\ exc' = exc
       \/ \E e \in GotoErrors :
             /\ exc' = e
             /\ calls' = Append(calls, Call("goto", FALSE))
             /\ pc' = "exit_with"
             /\ pageUrl' = pageUrl
    /\ UNCHANGED <<browser, page, verdict, files, closeCount, exitStatus>>

\* lines 5-6: print("Navigating to /onboarding..."); page.goto(...)
Goto ==
    /\ pc = "goto"
    /\ out' = Append(out, Line("navigating", <<>>))
    /\ \/ \E u \in Urls :
             /\ pageUrl' = u
             /\ calls' = Append(calls, Call("goto", TRUE))
             /\ pc' = "wait"
             /\ exc' = exc
       \/ \E e \in GotoErrors :
             /\ exc' = e
             /\ calls' = Append(calls, Call("goto", FALSE))
             /\ pc' = "except"
             /\ pageUrl' = pageUrl
    /\ UNCHANGED <<browser, page, verdict, files, closeCount, exitStatus>>

\* Variant: a failed wait is ignored and the check carries on.
WaitSwallow ==
    /\ pc = "wait"
    /\ \/ \E u \in Urls :
             /\ pageUrl' = u
             /\ calls' = Append(calls, Call("wait_for_load_state", TRUE))
       \/ /\ calls' = Append(calls, Call("wait_for_load_state", FALSE))
          /\ pageUrl' = pageUrl
    /\ pc' = "url"
    /\ UNCHANGED <<browser, page, verdict, out, files, exc, closeCount, exitStatus>>

\* line 9: page.wait_for_load_state('networkidle'); a client-side redirect
\* may change page.url while the page settles
WaitForLoadState ==
    /\ pc = "wait"
    /\ \/ \E u \in Urls :
             /\ pageUrl' = u
             /\ calls' = Append(calls, Call("wait_for_load_state", TRUE))
             /\ pc' = "url"
             /\ exc' = exc
       \/ \E e \in WaitErrors :
             /\ exc' = e
             /\ calls' = Append(calls, Call("wait_for_load_state", FALSE))
             /\ pc' = "except"
             /\ pageUrl' = pageUrl
    /\ UNCHANGED <<browser, page, verdict, out, files, closeCount, exitStatus>>

\* line 12: print(f"Current URL: {page.url}")
PrintCurrentUrl ==
    /\ pc = "url"
    /\ out' = Append(out, Line("current", pageUrl))
    /\ calls' = Append(calls, Call("url", TRUE))
    /\ pc' = "verdict"
    /\ UNCHANGED <<browser, page, pageUrl, verdict, files, exc, closeCount, exitStatus>>

\* Variant: the two messages exchanged.
VerdictSwapped ==
    /\ pc = "verdict"
    /\ IF RStrip(pageUrl, "/") = Base
       THEN /\ verdict' = "equal"
            /\ out' = Append(out, Line("failure", pageUrl))
       ELSE /\ verdict' = "different"
            /\ out' = Append(out, Line("success", <<>>))
    /\ calls' = Append(calls, Call("verdict", TRUE))
    /\ pc' = "screenshot"
    /\ UNCHANGED <<browser, page, pageUrl, files, exc, closeCount, exitStatus>>

\* Variant: the function returns after the failure message.
VerdictReturnOnMismatch ==
    /\ pc = "verdict"
    /\ IF RStrip(pageUrl, "/") = Base
       THEN /\ verdict' = "equal"
            /\ out' = Append(out, Line("success", <<>>))
            /\ pc' = "screenshot"
       ELSE /\ verdict' = "different"
            /\ out' = Append(out, Line("failure", pageUrl))
            /\ pc' = "finally"
    /\ calls' = Append(calls, Call("verdict", TRUE))
    /\ UNCHANGED <<browser, page, pageUrl, files, exc, closeCount, exitStatus>>

\* lines 22-25: the comparison and the two verdict messages
Verdict ==
    /\ pc = "verdict"
    /\ IF RStrip(pageUrl, "/") = Base
       THEN /\ verdict' = "equal"
            /\ out' = Append(out, Line("success", <<>>))
       ELSE /\ verdict' = "different"
            /\ out' = Append(out, Line("failure", pageUrl))
    /\ calls' = Append(calls, Call("verdict", TRUE))
    /\ pc' = "screenshot"
    /\ UNCHANGED <<browser, page, pageUrl, files, exc, closeCount, exitStatus>>

\* Variant: a failed screenshot is tried again.
ScreenshotRetry ==
    /\ pc = "screenshot"
    /\ \/ /\ files' = files \cup {ScreenshotOptions}
          /\ calls' = Append(calls, Call("screenshot", TRUE))
          /\ pc' = "finally"
          /\ exc' = exc
       \/ /\ Len(calls) < 9
          /\ calls' = Append(calls, Call("screenshot", FALSE))
          /\ UNCHANGED <<pc, exc, files>>
    /\ UNCHANGED <<browser, page, pageUrl, verdict, out, closeCount, exitStatus>>

\* line 27: page.screenshot(path="verification_redirect.png")
Screenshot ==
    /\ pc = "screenshot"
    /\ \/ /\ files' = files \cup {ScreenshotOptions}
          /\ calls' = Append(calls, Call("screenshot", TRUE))
          /\ pc' = "finally"
          /\ exc' = exc
       \/ \E e \in ScreenshotErrors :
             /\ exc' = e
             /\ calls' = Append(calls, Call("screenshot", FALSE))
             /\ pc' = "except"
             /\ files' = files
    /\ UNCHANGED <<browser, page, pageUrl, verdict, out, closeCount, exitStatus>>

\* Variant: the handler prints nothing and lets the exception go on.
ExceptReraise ==
    /\ pc = "except"
    /\ calls' = Append(calls, Call("except", TRUE))
    /\ pc' = "finally"
    /\ UNCHANGED <<browser, page, pageUrl, verdict, out, files, exc, closeCount, exitStatus>>

\* lines 35-36: except Exception as e: print(f"Error: {e}")
Except ==
    /\ pc = "except"
    /\ out' = Append(out, Line("error", <<exc>>))
    /\ exc' = "none"
    /\ calls' = Append(calls, Call("except", TRUE))
    /\ pc' = "finally"
    /\ UNCHANGED <<browser, page, pageUrl, verdict, files, closeCount, exitStatus>>

\* lines 37-38: finally: browser.close()
Finally ==
    /\ pc = "finally"
    /\ browser' = "closed"
    /\ closeCount' = closeCount + 1
    /\ calls' = Append(calls, Call("close", TRUE))
    /\ pc' = "exit_with"
    /\ UNCHANGED <<page, pageUrl, verdict, out, files, exc, exitStatus>>

\* line 30, leaving the with block, and the end of the script: an exception
\* still in flight propagates out of the script and the interpreter exits
\* with status 1
ExitWith ==
    /\ pc = "exit_with"
    /\ exitStatus' = IF exc = "none" THEN 0 ELSE 1
    /\ pc' = "done"
    /\ UNCHANGED <<browser, page, pageUrl, verdict, out, calls, files, exc, closeCount>>

Next ==
    \/ EnterPlaywright
    \/ Launch
    \/ NewPage
    \/ Goto
    \/ WaitForLoadState
    \/ PrintCurrentUrl
    \/ Verdict
    \/ Screenshot
    \/ Except
    \/ Finally
    \/ ExitWith

Spec == Init /\ [][Next]_vars

------------------------------------------------------------------------------
\* Vocabulary of the properties

Ok(op) == \E i \in 1..Len(calls) : calls[i].op = op /\ calls[i].ok

Failed(op) == \E i \in 1..Len(calls) : calls[i].op = op /\ ~calls[i].ok

Attempted(op) == \E i \in 1..Len(calls) : calls[i].op = op

Count(op) == Cardinality({i \in 1..Len(calls) : calls[i].op = op})

AnyFailure == \E i \in 1..Len(calls) : ~calls[i].ok

Printed(kind) == Cardinality({i \in 1..Len(out) : out[i].kind = kind})

VerdictsPrinted == Printed("success") + Printed("failure")

\* the browser-facing steps, in program order
Rank(op) ==
    CASE op = "launch" -> 1
      [] op = "new_page" -> 2
      [] op = "goto" -> 3
      [] op = "wait_for_load_state" -> 4
      [] op = "url" -> 5
      [] op = "verdict" -> 6
      [] op = "screenshot" -> 7
      [] op = "except" -> 8
      [] op = "close" -> 9

PageOps == {"goto", "wait_for_load_state", "url", "screenshot"}

CheckSteps == {"launch", "new_page", "goto", "wait_for_load_state", "url", "verdict", "screenshot"}

Slashes(k) == [i \in 1..k |-> "/"]

\* the URL is the base URL followed by nothing but slashes
BaseThenSlashes(u) == \E k \in 0..Len(u) : u = Base \o Slashes(k)

------------------------------------------------------------------------------
\* C1: a failure in any of steps 1-7 is caught and printed as an error, no
\* exception escapes the script, and the process ends with exit status 0.
C1_FailureCaughtExitZero ==
    (pc = "done" /\ AnyFailure) =>
        /\ Printed("error") >= 1
        /\ exc = "none"
        /\ exitStatus = 0

\* C2: on every exit path of a run in which a browser was launched, the
\* browser is closed exactly once, never zero times and never twice.
C2_ClosedExactlyOnce ==
    /\ closeCount <= 1
    /\ (pc = "done" /\ Ok("launch")) => (closeCount = 1 /\ browser = "closed")

\* C3 (as stated): the comparison yields equal exactly when the observed URL
\* with a single trailing slash stripped, if it has one, is the base URL.
C3_EqualIffOneSlashStripped ==
    verdict # "none" => (verdict = "equal" <=> RStripOnce(pageUrl, "/") = Base)

\* C3 (amended): the comparison yields equal exactly when the observed URL is
\* the base URL followed by any number of trailing slashes, none included;
\* base and base + "/" are equal and base + "/onboarding" is different.
C3_EqualIffSlashesStripped ==
    verdict # "none" =>
        /\ verdict = "equal" <=> BaseThenSlashes(pageUrl)
        /\ pageUrl \in {Base, Base \o <<"/">>} => verdict = "equal"
        /\ pageUrl = OnboardingUrl => verdict = "different"

C3_Witness == verdict = "equal" /\ pageUrl = Base \o <<"/", "/">>

\* C4: when navigation and the idle wait succeed exactly one verdict message
\* is printed, the success message when the comparison finds the landing URL
\* and the failure message otherwise; a mismatch alone never raises and is
\* never printed as an error.
C4_OneVerdictByComparison ==
    /\ VerdictsPrinted <= 1
    /\ (pc = "done" /\ Ok("goto") /\ Ok("wait_for_load_state")) =>
          /\ VerdictsPrinted = 1
          /\ Printed("success") = 1 <=> RStrip(pageUrl, "/") = Base
          /\ pageUrl \in {Base, Base \o <<"/">>} => Printed("success") = 1
          /\ pageUrl = OnboardingUrl => out[3] = Line("failure", pageUrl)
          /\ ~AnyFailure => (Printed("error") = 0 /\ exc = "none" /\ exitStatus = 0)

C4_Witness ==
    /\ pc = "done"
    /\ pageUrl = OnboardingUrl
    /\ Printed("failure") = 1
    /\ Printed("error") = 0

\* C5: if page.goto fails the run prints an error message, prints no
\* verdict, writes no screenshot, closes the browser and ends with exit
\* status 0, no exception leaving the script.
C5_GotoFailure ==
    (pc = "done" /\ Failed("goto")) =>
        /\ Printed("error") = 1
        /\ VerdictsPrinted = 0
        /\ files = {}
        /\ closeCount = 1
        /\ browser = "closed"
        /\ exc = "none"
        /\ exitStatus = 0

C5_Witness == pc = "done" /\ Failed("goto") /\ out[Len(out)].text = <<"net::ERR_CONNECTION_REFUSED">>

\* C6 (as stated): when no step before the screenshot fails, the screenshot
\* is attempted and the file is written, whatever the verdict.
C6_ScreenshotWritten ==
    (pc = "done" /\ Ok("goto") /\ Ok("wait_for_load_state") /\ Ok("url")) =>
        (Attempted("screenshot") /\ files # {})

\* C6 (amended): when no step before the screenshot fails, the screenshot is
\* attempted, whatever the verdict, and the file is written exactly when the
\* screenshot step itself does not fail.
C6_ScreenshotAttempted ==
    (pc = "done" /\ Ok("goto") /\ Ok("wait_for_load_state") /\ Ok("url")) =>
        /\ Count("screenshot") = 1
        /\ Ok("screenshot") <=> files # {}

C6_Witness == pc = "done" /\ verdict = "different" /\ Ok("screenshot") /\ files # {}

\* C7 (as stated): the screenshot is a full-page screenshot written to the
\* fixed path verification_redirect.png.
C7_FullPageFixedPath ==
    Ok("screenshot") =>
        files = {[path |-> "verification_redirect.png", fullPage |-> TRUE]}

\* C7 (amended): the screenshot is a screenshot of the visible viewport (the
\* full-page option is left at its default, off) written to the fixed path
\* verification_redirect.png.
C7_ViewportFixedPath ==
    /\ Ok("screenshot") =>
          files = {[path |-> "verification_redirect.png", fullPage |-> FALSE]}
    /\ ~Ok("screenshot") => files = {}

C7_Witness == Ok("screenshot") /\ files # {}

C9_NoRetry ==
    /\ \A op \in CheckSteps : Count(op) <= 1
    /\ \A i, j \in 1..Len(calls) :
          (i < j /\ ~calls[i].ok) => calls[j].op \in {"except", "close"}

C9_Witness == pc = "done" /\ Failed("wait_for_load_state") /\ Len(calls) = 6

\* C10: when navigation and the idle wait succeed and the screenshot fails,
\* the output has the verdict message followed by exactly one error message,
\* the browser is closed and the exit status is 0.
C10_VerdictThenError ==
    (pc = "done" /\ Ok("goto") /\ Ok("wait_for_load_state") /\ Failed("screenshot")) =>
        /\ Len(out) = 4
        /\ out[3].kind \in {"success", "failure"}
        /\ out[3].kind = "success" <=> verdict = "equal"
        /\ out[4] = Line("error", <<"Permission denied">>)
        /\ VerdictsPrinted = 1
        /\ Printed("error") = 1
        /\ closeCount = 1
        /\ browser = "closed"
        /\ exitStatus = 0

C10_Witness == pc = "done" /\ Failed("screenshot") /\ Printed("success") = 1 /\ Printed("error") = 1

====
